---- MODULE Spec2Model ----
(***************************************************************************)
(* Model of the blog post sync script (scripts/sync-posts.js) and of the   *)
(* rendering layer's post ordering (src/utils/postSorting.ts,              *)
(* src/contexts/PostContext.tsx).                                          *)
(*                                                                         *)
(* Optional JavaScript values are modelled as sequences of length 0 or 1:  *)
(* <<>> is an absent (undefined) field, <<v>> a field holding v.  Dates    *)
(* in YYYY-MM-DD form are modelled by the integers of Dates, ordered as   *)
(* the strings are ordered.                                                *)
(***************************************************************************)
EXTENDS Integers, Sequences, FiniteSets, TLC

\* ------------------------------------------------------------------------
\* Bounds
\* ------------------------------------------------------------------------
MaxPosts == 3    \* longest entry list handed to the ordering
MaxAdded == 2    \* markdown files the author adds to the posts directory
MaxEdits == 1    \* edits the author makes to posts.json by hand
MaxLines == 5    \* lines of a markdown file whose text is parsed
MaxFiles == 3    \* markdown files of a directory that a run finds as it is

Dates == {1, 2}              \* the dates 2025-01-01 and 2025-01-02
EdgeCounts == 0..3           \* prerequisite references in one entry list
BaseNames == <<"a">>         \* file names without date prefix and extension
Today == 1 + 1               \* the day the files are written: 2025-01-02

\* ------------------------------------------------------------------------
\* State
\* ------------------------------------------------------------------------
VARIABLES
    posts,      \* the entry list handed to sortPostsTopologically
    depthMemo,  \* slug -> depth, as left by the calculateDepth calls
    sorted,     \* the list returned by sortPostsTopologically
    phase,      \* "input" before the sort ran, "sorted" after
    dir,        \* public/posts: markdown file name -> file content
    manifest,   \* posts.json: the sequence of entries (<< >> when missing)
    run,        \* what the last run of the sync script did (NoRun: nothing
                \* ran since the directory or the manifest was last edited)
    added,      \* number of files the author has added
    edited,     \* number of hand edits of posts.json
    fileText,    \* the text of one markdown file, as its sequence of lines
    stripRun,   \* what --strip-meta did with that file (<< >>: not run yet)
    stack,      \* the calls of calculateDepth in progress, the innermost last
    cursor,     \* the entry posts.forEach calls calculateDepth for next (0: no loop)
    dateInput,  \* the sources of the date of one file (<< >>: none given)
    resolved,   \* what the date resolution made of them (<< >>: not run yet)
    view,       \* PostView: the slug of the route and the component's state
    requests    \* PostView: the request chains that have not settled

sortVars == <<posts, depthMemo, sorted, phase>>
syncVars == <<dir, manifest, run, added, edited>>
textVars == <<fileText, stripRun>>
callVars == <<stack, cursor>>
dateVars == <<dateInput, resolved>>
viewVars == <<view, requests>>

vars == <<posts, depthMemo, sorted, phase, dir, manifest, run, added, edited,
          fileText, stripRun, stack, cursor, dateInput, resolved, view, requests>>

\* ------------------------------------------------------------------------
\* Helpers for JavaScript values
\* ------------------------------------------------------------------------
None == <<>>
Some(v) == <<v>>

Range(s) == {s[i] : i \in DOMAIN s}

\* The depth of the prerequisite visited last instead of the largest one.
LastOf(a, b) == b

\* Math.max(a, b)
Max2(a, b) == IF a >= b THEN a ELSE b

\* String.prototype.localeCompare on the repository names of the model:
\* the rank of a name in the collation order ("" sorts first).
StrRank(s) == CASE s = "" -> 0 [] s = "a" -> 1 [] s = "b" -> 2 [] OTHER -> 3

\* ------------------------------------------------------------------------
\* Dependency depth (calculateDepth, calculatePostDepths)
\* ------------------------------------------------------------------------

\* postsBySlug: posts.forEach(p => postsBySlug.set(p.slug, p)); a later
\* entry with the same slug replaces an earlier one.
RECURSIVE SetAll(_, _, _)
SetAll(ps, i, map) ==
    IF i > Len(ps) THEN map ELSE SetAll(ps, i + 1, (ps[i].slug :> ps[i]) @@ map)

PostsBySlug(ps) == SetAll(ps, 1, << >>)

RECURSIVE calculateDepth(_, _, _)
RECURSIVE PrereqLoop(_, _, _, _, _)

\* The for-loop over post.prerequisites: returns the memo and maxPrereqDepth.
PrereqLoop(prs, i, postsBySlug, memo, maxPrereqDepth) ==
    IF i > Len(prs) THEN [memo |-> memo, max |-> maxPrereqDepth]
    ELSE IF prs[i] \in DOMAIN postsBySlug
         THEN LET m2 == calculateDepth(postsBySlug[prs[i]], postsBySlug, memo)
              IN PrereqLoop(prs, i + 1, postsBySlug, m2,
                            Max2(maxPrereqDepth, m2[prs[i]]))
         ELSE PrereqLoop(prs, i + 1, postsBySlug, memo, maxPrereqDepth)

\* calculateDepth with maxPrereqDepth starting at 0 instead of -1.
calculateDepthFromZero(post, postsBySlug, memo) ==
    IF post.slug \in DOMAIN memo THEN memo
    ELSE IF post.prerequisites = None \/ Len(post.prerequisites[1]) = 0
         THEN (post.slug :> 0) @@ memo
         ELSE LET r == PrereqLoop(post.prerequisites[1], 1, postsBySlug, memo, 0)
              IN (post.slug :> r.max + 1) @@ r.memo

\* calculateDepth(post, postsBySlug, memo): the memo after the call; the
\* returned depth is the memo's value at post.slug.
calculateDepth(post, postsBySlug, memo) ==
    IF post.slug \in DOMAIN memo THEN memo
    ELSE IF post.prerequisites = None \/ Len(post.prerequisites[1]) = 0
         THEN (post.slug :> 0) @@ memo
         ELSE LET r == PrereqLoop(post.prerequisites[1], 1, postsBySlug, memo, -1)
              IN (post.slug :> r.max + 1) @@ r.memo

RECURSIVE DepthsFrom(_, _, _, _)
DepthsFrom(ps, i, postsBySlug, memo) ==
    IF i > Len(ps) THEN memo
    ELSE DepthsFrom(ps, i + 1, postsBySlug, calculateDepth(ps[i], postsBySlug, memo))

\* calculatePostDepths(posts): posts.forEach(p => calculateDepth(p, ...)).
calculatePostDepths(ps) == DepthsFrom(ps, 1, PostsBySlug(ps), << >>)

\* ------------------------------------------------------------------------
\* Ordering (sortPostsTopologically)
\* ------------------------------------------------------------------------

\* a.sourceRepo || ''
RepoOf(p) == IF p.sourceRepo = None \/ p.sourceRepo = Some("") THEN "" ELSE p.sourceRepo[1]

\* depthMemo.get(a.slug) || 0
DepthOf(memo, p) == IF p.slug \in DOMAIN memo THEN memo[p.slug] ELSE 0

\* x.localeCompare(y) on two dates in YYYY-MM-DD form.
LocaleCompareDate(x, y) == x - y

\* The date ordered the wrong way round (oldest first).
CompareDatesAscending(a, b) == LocaleCompareDate(a.date, b.date)

\* b.date.localeCompare(a.date): newer first.
CompareDates(a, b) == LocaleCompareDate(b.date, a.date)

\* The comparator without its depth step.
ComparePostsNoDepth(memo, a, b) ==
    IF RepoOf(a) # RepoOf(b) THEN StrRank(RepoOf(a)) - StrRank(RepoOf(b))
    ELSE CompareDates(a, b)

\* The comparator passed to sort: negative when a sorts before b.
ComparePosts(memo, a, b) ==
    IF RepoOf(a) # RepoOf(b) THEN StrRank(RepoOf(a)) - StrRank(RepoOf(b))
    ELSE IF DepthOf(memo, a) # DepthOf(memo, b) THEN DepthOf(memo, a) - DepthOf(memo, b)
    ELSE CompareDates(a, b)

\* A sort that is not stable: an element is placed before the elements it
\* ties with.
RECURSIVE InsertSortedBeforeTies(_, _, _)
InsertSortedBeforeTies(memo, out, x) ==
    IF out = << >> THEN <<x>>
    ELSE IF ComparePosts(memo, out[Len(out)], x) < 0 THEN Append(out, x)
         ELSE Append(InsertSortedBeforeTies(memo, SubSeq(out, 1, Len(out) - 1), x),
                     out[Len(out)])

\* Array.prototype.sort is a stable sort: an element is placed after every
\* element that does not sort after it.
RECURSIVE InsertSorted(_, _, _)
InsertSorted(memo, out, x) ==
    IF out = << >> THEN <<x>>
    ELSE IF ComparePosts(memo, out[Len(out)], x) <= 0 THEN Append(out, x)
         ELSE Append(InsertSorted(memo, SubSeq(out, 1, Len(out) - 1), x), out[Len(out)])

RECURSIVE StableSort(_, _, _, _)
StableSort(memo, ps, i, out) ==
    IF i > Len(ps) THEN out
    ELSE StableSort(memo, ps, i + 1, InsertSorted(memo, out, ps[i]))

sortPostsTopologically(ps) == StableSort(calculatePostDepths(ps), ps, 1, << >>)

\* new Date(date).getTime() of a date in YYYY-MM-DD form: the milliseconds
\* of its day (the dates of the model are consecutive days).
DayMillis == 86400000
GetTime(date) == date * DayMillis

\* The comparator of postSorting.ts: its date step subtracts the times.
ComparePostsByTime(memo, a, b) ==
    IF RepoOf(a) # RepoOf(b) THEN StrRank(RepoOf(a)) - StrRank(RepoOf(b))
    ELSE IF DepthOf(memo, a) # DepthOf(memo, b) THEN DepthOf(memo, a) - DepthOf(memo, b)
    ELSE GetTime(b.date) - GetTime(a.date)

RECURSIVE InsertSortedByTime(_, _, _)
InsertSortedByTime(memo, out, x) ==
    IF out = << >> THEN <<x>>
    ELSE IF ComparePostsByTime(memo, out[Len(out)], x) <= 0 THEN Append(out, x)
         ELSE Append(InsertSortedByTime(memo, SubSeq(out, 1, Len(out) - 1), x),
                     out[Len(out)])

RECURSIVE StableSortByTime(_, _, _, _)
StableSortByTime(memo, ps, i, out) ==
    IF i > Len(ps) THEN out
    ELSE StableSortByTime(memo, ps, i + 1, InsertSortedByTime(memo, out, ps[i]))

\* sortPostsTopologically of postSorting.ts
sortPostsTopologicallyByTime(ps) ==
    StableSortByTime(calculatePostDepths(ps), ps, 1, << >>)

\* p.draft of an entry: the field is optional.
IsDraft(p) == "draft" \in DOMAIN p /\ p.draft = TRUE
IsPublished(p) == ~IsDraft(p)

\* The filter left out: every entry of the manifest is listed.
KeepDrafts(data) == data

\* data.filter(p => !p.draft)
FilterDrafts(data) == SelectSeq(data, IsPublished)

\* getAdjacentPosts(slug) over the post list ps of the PostProvider.
getAdjacentPosts(ps, slug) ==
    LET found == {i \in DOMAIN ps : ps[i].slug = slug}
        index == IF found = {} THEN -1
                 ELSE CHOOSE i \in found : \A j \in found : i <= j
    IN IF index = -1 THEN [prevPost |-> None, nextPost |-> None]
       ELSE [prevPost |-> IF index > 1 THEN Some(ps[index - 1]) ELSE None,
             nextPost |-> IF index < Len(ps) THEN Some(ps[index + 1]) ELSE None]

\* ------------------------------------------------------------------------
\* File names and slugs
\* ------------------------------------------------------------------------
\* A name without extension is [k, d, b]: k = "bare" for b alone ("a"),
\* "iso" for a YYYY-MM-DD- prefix ("2025-01-02-a"), "dmy" for a D-M-YYYY-
\* prefix ("2-1-2025-a"); d is the date of the prefix (0 when bare).  The
\* base names themselves do not start with a date.
Bases == Range(BaseNames)

Stems ==
    {[k |-> "bare", d |-> 0, b |-> b] : b \in Bases}
    \cup {[k |-> k, d |-> d, b |-> b] : k \in {"iso", "dmy"}, d \in Dates, b \in Bases}

Filenames == {[stem |-> s, ext |-> "md"] : s \in Stems}

\* filename.replace(/\.md$/, '')
StripMd(filename) == filename.stem

\* `${slug}.md`
WithMd(stem) == [stem |-> stem, ext |-> "md"]

\* extractDateFromFilename: the date of either prefix form in YYYY-MM-DD
\* form, 0 (null) without a prefix.
extractDateFromFilename(filename) ==
    IF filename.stem.k \in {"iso", "dmy"} THEN filename.stem.d ELSE 0

\* removeDatePrefix
removeDatePrefix(stem) == [k |-> "bare", d |-> 0, b |-> stem.b]

\* The date put before the name in D-M-YYYY form.
DmyName(date, slugBase) == [k |-> "dmy", d |-> date, b |-> slugBase.b]

\* `${date}-${slugBase}`
DatedName(date, slugBase) == [k |-> "iso", d |-> date, b |-> slugBase.b]

\* fs.readdirSync returns the names in byte order: digits sort before
\* letters and "2-1-2025-" before "2025-01-01-".
BaseRank(b) == CHOOSE i \in DOMAIN BaseNames : BaseNames[i] = b
KindRank(k) == CASE k = "dmy" -> 0 [] k = "iso" -> 1 [] OTHER -> 2
NameKey(filename) ==
    (KindRank(filename.stem.k) * (Today + 1) + filename.stem.d) * (Len(BaseNames) + 1)
        + BaseRank(filename.stem.b)

RECURSIVE SortedNames(_)
SortedNames(S) ==
    IF S = {} THEN << >>
    ELSE LET f == CHOOSE x \in S : \A y \in S : NameKey(x) <= NameKey(y)
         IN <<f>> \o SortedNames(S \ {f})

\* fs.readdirSync(POSTS_DIR).filter(f => f.endsWith('.md'))
readdirSync(d) == SortedNames(DOMAIN d)

\* ------------------------------------------------------------------------
\* File contents and metadata extraction
\* ------------------------------------------------------------------------
\* The slug listed as prerequisite: a post kept in another repository.
PrereqTarget == [k |-> "iso", d |-> 1, b |-> "intro"]

\* A file without metadata block, last modified on day m.
PlainFile(m) ==
    [block |-> FALSE, created |-> 0, description |-> None, source_repo |-> None,
     prerequisites |-> None, last_updated |-> None, tags |-> << >>, mtime |-> m]

\* More tags than an extraction keeps.
SixTags == <<"rust", "memory", "async", "traits", "macros", "unsafe">>

\* A file with a frontmatter block that has a 'created' date and six tags.
DatedFile(d) ==
    [block |-> TRUE, created |-> d, description |-> Some("from file"),
     source_repo |-> Some("b"), prerequisites |-> Some(<<PrereqTarget>>),
     last_updated |-> Some(d),
     tags |-> SixTags, mtime |-> Today]

\* The contents a file is created with: without metadata, or with a
\* frontmatter block dated 2025-01-01.
FileContents == {PlainFile(Today), DatedFile(1)}

\* stripMetadata: the content without its metadata block, written today.
stripMetadata(content) == PlainFile(Today)

\* .slice(0, n)
Take(s, n) == IF Len(s) <= n THEN s ELSE SubSeq(s, 1, n)

\* extractMetadataFromFile(filepath, filename).postData
extractMetadataFromFile(content, filename) ==
    LET date == IF content.created # 0 THEN content.created
                ELSE IF extractDateFromFilename(filename) # 0
                     THEN extractDateFromFilename(filename)
                     ELSE content.mtime
        slugBase == removeDatePrefix(StripMd(filename))
    IN [slug |-> DatedName(date, slugBase),
        title |-> Some("Title"),
        date |-> date,
        tags |-> Some(Take(content.tags, 5)),
        description |-> content.description,
        sourceRepo |-> content.source_repo,
        prerequisites |-> IF content.prerequisites # None
                             /\ Len(content.prerequisites[1]) > 0
                          THEN content.prerequisites ELSE None,
        lastUpdated |-> content.last_updated]

\* ------------------------------------------------------------------------
\* Reconciliation with the previous manifest
\* ------------------------------------------------------------------------
REQUIRED_FIELDS == <<"slug", "title", "date", "tags">>
optionalFields == <<"description", "sourceRepo", "prerequisites", "lastUpdated">>

\* !value for the value of a field: an absent field, an empty string and a
\* missing date are falsy; an array is truthy even when it is empty.
Falsy(field, value) ==
    CASE field = "slug" -> FALSE
      [] field = "date" -> value = 0
      [] field \in {"title", "description", "sourceRepo"} ->
            value = None \/ value = Some("")
      [] OTHER -> value = None

\* An empty list counted as missing too.
FalsyOrEmpty(field, value) ==
    Falsy(field, value) \/ (field \in {"tags", "prerequisites"} /\ value = Some(<< >>))

\* The entries loaded without their description.
loadWithoutDescription(m) ==
    [slug \in DOMAIN PostsBySlug(m) |-> [PostsBySlug(m)[slug] EXCEPT !.description = None]]

\* loadExistingPosts: slug -> entry, a later entry replacing an earlier one.
loadExistingPosts(m) == PostsBySlug(m)

\* hasMissingFields(existing)
hasMissingFields(existing) ==
    \E i \in DOMAIN REQUIRED_FIELDS : Falsy(REQUIRED_FIELDS[i], existing[REQUIRED_FIELDS[i]])

RECURSIVE FillFields(_, _, _, _)
FillFields(merged, extracted, fields, i) ==
    IF i > Len(fields) THEN merged
    ELSE LET f == fields[i]
         IN FillFields(IF Falsy(f, merged[f]) /\ ~Falsy(f, extracted[f])
                       THEN [merged EXCEPT ![f] = extracted[f]]
                       ELSE merged,
                       extracted, fields, i + 1)

\* mergePostData(existing, extracted)
mergePostData(existing, extracted) ==
    FillFields(FillFields(existing, extracted, REQUIRED_FIELDS, 1),
               extracted, optionalFields, 1)

\* The slugs under which processPost looks a file up, in order.
possibleSlugs(filename) ==
    LET slugBase == removeDatePrefix(StripMd(filename))
        dateFromFilename == extractDateFromFilename(filename)
    IN <<StripMd(filename)>>
       \o (IF dateFromFilename # 0 THEN <<DatedName(dateFromFilename, slugBase)>> ELSE << >>)
       \o <<slugBase>>

RECURSIVE FirstMatch(_, _, _)
FirstMatch(slugs, i, existingPosts) ==
    IF i > Len(slugs) THEN None
    ELSE IF slugs[i] \in DOMAIN existingPosts THEN Some(slugs[i])
         ELSE FirstMatch(slugs, i + 1, existingPosts)

\* needsExtraction = FORCE || !existing || hasMissingFields(existing)
needsExtraction(force, existingSlug, existingPosts) ==
    force \/ existingSlug = None \/ hasMissingFields(existingPosts[existingSlug[1]])

\* processPost(filename, existingPosts).  reused: postData is the very object
\* of existingPosts, shared by every file that matched the same entry.
processPost(filename, content, existingPosts, flags) ==
    LET slugBase == removeDatePrefix(StripMd(filename))
        existingSlug == FirstMatch(possibleSlugs(filename), 1, existingPosts)
        extract == needsExtraction(flags.force, existingSlug, existingPosts)
        extracted == extractMetadataFromFile(content, filename)
        merge == extract /\ existingSlug # None /\ ~flags.force
        postData == IF extract
                    THEN IF merge
                         THEN mergePostData(existingPosts[existingSlug[1]], extracted)
                         ELSE extracted
                    ELSE existingPosts[existingSlug[1]]
        newFilename == WithMd(DatedName(postData.date, slugBase))
    IN [filename |-> filename,
        newFilename |-> newFilename,
        filepath |-> filename,
        postData |-> postData,
        needsRename |-> filename # newFilename,
        needsExtraction |-> extract,
        existingSlug |-> existingSlug,
        hasMetadata |-> content.block,
        originalContent |-> content,
        reused |-> ~extract,
        merged |-> merge,
        extracted |-> IF extract THEN Some(extracted) ELSE None,
        processed |-> postData,
        renamed |-> FALSE,
        skipped |-> FALSE]

\* ------------------------------------------------------------------------
\* main
\* ------------------------------------------------------------------------
Flags == [dryRun : BOOLEAN, noRename : BOOLEAN, stripMeta : BOOLEAN, force : BOOLEAN]

RECURSIVE ProcessAll(_, _, _, _, _)
\* files.map(f => processPost(f, existingPosts))
ProcessAll(files, i, d, existingPosts, flags) ==
    IF i > Len(files) THEN << >>
    ELSE <<processPost(files[i], d[files[i]], existingPosts, flags)>>
         \o ProcessAll(files, i + 1, d, existingPosts, flags)

\* post.postData.slug = slug: the assignment is seen through every post whose
\* postData is the same object of existingPosts.
SetSlug(ps, i, slug) ==
    [j \in DOMAIN ps |->
        IF j = i \/ (ps[i].reused /\ ps[j].reused /\ ps[j].existingSlug = ps[i].existingSlug)
        THEN [ps[j] EXCEPT !.postData.slug = slug]
        ELSE ps[j]]

\* fs.renameSync(from, to)
renameSync(d, from, to) ==
    [f \in (DOMAIN d \ {from}) \cup {to} |-> IF f = to THEN d[from] ELSE d[f]]

\* fs.writeFileSync(path, content)
writeFileSync(d, path, content) ==
    [f \in DOMAIN d \cup {path} |-> IF f = path THEN content ELSE d[f]]

\* The iteration without the test fs.existsSync(newPath): the file is renamed
\* whatever is at the target.
ApplyPostOverwriting(ps, i, d, flags) ==
    LET post == ps[i]
        rename == post.needsRename /\ ~flags.noRename
        ps1 == IF rename
               THEN [ps EXCEPT ![i].filepath = post.newFilename, ![i].renamed = TRUE]
               ELSE IF flags.noRename
                    THEN SetSlug(ps, i, StripMd(post.filename))
                    ELSE ps
        d1 == IF rename THEN renameSync(d, post.filename, post.newFilename) ELSE d
        d2 == IF flags.stripMeta /\ post.hasMetadata
              THEN writeFileSync(d1, ps1[i].filepath, stripMetadata(post.originalContent))
              ELSE d1
    IN [posts |-> ps1, dir |-> d2]

\* One iteration of 'for (const post of posts)' in the apply phase.
ApplyPost(ps, i, d, flags) ==
    LET post == ps[i]
        rename == post.needsRename /\ ~flags.noRename
        skip == rename /\ post.newFilename \in DOMAIN d /\ post.filename # post.newFilename
        ps1 == IF rename
               THEN IF skip
                    THEN SetSlug([ps EXCEPT ![i].skipped = TRUE], i, StripMd(post.filename))
                    ELSE [ps EXCEPT ![i].filepath = post.newFilename, ![i].renamed = TRUE]
               ELSE IF flags.noRename
                    THEN SetSlug(ps, i, StripMd(post.filename))
                    ELSE ps
        d1 == IF rename /\ ~skip THEN renameSync(d, post.filename, post.newFilename) ELSE d
        d2 == IF flags.stripMeta /\ post.hasMetadata
              THEN writeFileSync(d1, ps1[i].filepath, stripMetadata(post.originalContent))
              ELSE d1
    IN [posts |-> ps1, dir |-> d2]

RECURSIVE ApplyChanges(_, _, _, _)
ApplyChanges(ps, i, d, flags) ==
    IF i > Len(ps) THEN [posts |-> ps, dir |-> d]
    ELSE LET r == ApplyPost(ps, i, d, flags)
         IN ApplyChanges(r.posts, i + 1, r.dir, flags)

\* The entries of the files that were extracted only.
IsExtracted(post) == post.needsExtraction
PostDataOfExtracted(ps) ==
    [i \in DOMAIN SelectSeq(ps, IsExtracted) |-> SelectSeq(ps, IsExtracted)[i].postData]

\* posts.map(p => p.postData)
PostData(ps) == [i \in DOMAIN ps |-> ps[i].postData]

NoRun ==
    [outcome |-> "none", flags |-> [dryRun |-> FALSE, noRename |-> FALSE,
                                    stripMeta |-> FALSE, force |-> FALSE],
     prior |-> << >>, posts |-> << >>, printed |-> << >>, inRow |-> FALSE]

\* main() with the exit of the dry run missing: the changes are applied and
\* the manifest is written under --dry-run too.
mainWithoutDryRunExit(d, m, flags, prev) ==
    LET existingPosts == IF flags.force THEN << >> ELSE loadExistingPosts(m)
        files == readdirSync(d)
        ps == ProcessAll(files, 1, d, existingPosts, flags)
        applied == ApplyChanges(ps, 1, d, flags)
        inRow == prev.outcome = "written" /\ prev.flags = flags
        rec == [outcome |-> "none", flags |-> flags, prior |-> m, posts |-> ps,
                printed |-> << >>, inRow |-> inRow]
    IN IF Len(files) = 0
       THEN [dir |-> d, manifest |-> m, run |-> [rec EXCEPT !.outcome = "noFiles"]]
       ELSE [dir |-> applied.dir,
             manifest |-> sortPostsTopologically(PostData(applied.posts)),
             run |-> [rec EXCEPT !.outcome = IF flags.dryRun THEN "dryRun" ELSE "written",
                                 !.printed = IF flags.dryRun
                                             THEN sortPostsTopologically(PostData(ps))
                                             ELSE << >>]]

\* main() with --force not honoured: the previous manifest is loaded and the
\* files are processed as without the flag.
mainIgnoringForce(d, m, flags, prev) ==
    LET existingPosts == loadExistingPosts(m)
        files == readdirSync(d)
        ps == ProcessAll(files, 1, d, existingPosts, [flags EXCEPT !.force = FALSE])
        applied == ApplyChanges(ps, 1, d, flags)
        inRow == prev.outcome = "written" /\ prev.flags = flags
        rec == [outcome |-> "none", flags |-> flags, prior |-> m, posts |-> ps,
                printed |-> << >>, inRow |-> inRow]
    IN IF Len(files) = 0
       THEN [dir |-> d, manifest |-> m, run |-> [rec EXCEPT !.outcome = "noFiles"]]
       ELSE IF flags.dryRun
       THEN [dir |-> d, manifest |-> m,
             run |-> [rec EXCEPT !.outcome = "dryRun",
                                 !.printed = sortPostsTopologically(PostData(ps))]]
       ELSE [dir |-> applied.dir,
             manifest |-> sortPostsTopologically(PostData(applied.posts)),
             run |-> [rec EXCEPT !.outcome = "written", !.posts = applied.posts]]

\* main(): the directory and the manifest after the run, and its record.
\* inRow: the previous run wrote the manifest with the same flags and nothing
\* was edited since.
main(d, m, flags, prev) ==
    LET existingPosts == IF flags.force THEN << >> ELSE loadExistingPosts(m)
        files == readdirSync(d)
        ps == ProcessAll(files, 1, d, existingPosts, flags)
        applied == ApplyChanges(ps, 1, d, flags)
        inRow == prev.outcome = "written" /\ prev.flags = flags
        rec == [outcome |-> "none", flags |-> flags, prior |-> m, posts |-> ps,
                printed |-> << >>, inRow |-> inRow]
    IN IF Len(files) = 0
       THEN [dir |-> d, manifest |-> m, run |-> [rec EXCEPT !.outcome = "noFiles"]]
       ELSE IF flags.dryRun
       THEN [dir |-> d, manifest |-> m,
             run |-> [rec EXCEPT !.outcome = "dryRun",
                                 !.printed = sortPostsTopologically(PostData(ps))]]
       ELSE [dir |-> applied.dir,
             manifest |-> sortPostsTopologically(PostData(applied.posts)),
             run |-> [rec EXCEPT !.outcome = "written", !.posts = applied.posts]]

\* ------------------------------------------------------------------------
\* The posts directory, the manifest and the runs of the script
\* ------------------------------------------------------------------------
Init ==
    /\ dir = << >>
    /\ manifest = << >>
    /\ run = NoRun
    /\ added = 0
    /\ edited = 0
    /\ posts = << >>
    /\ depthMemo = << >>
    /\ sorted = << >>
    /\ phase = "sync"
    /\ fileText = << >>
    /\ stripRun = << >>
    /\ stack = << >>
    /\ cursor = 0
    /\ view = << >>
    /\ requests = {}
    /\ dateInput = << >>
    /\ resolved = << >>

\* The author adds a markdown file.
AddFile ==
    /\ phase = "sync"
    /\ added < MaxAdded
    /\ \E f \in Filenames \ DOMAIN dir :
         \E c \in FileContents :
           dir' = writeFileSync(dir, f, c)
    /\ added' = added + 1
    /\ run' = NoRun
    /\ UNCHANGED <<manifest, edited, sortVars, textVars, dateVars, viewVars, callVars>>

\* The author deletes a markdown file.
DeleteFile ==
    /\ phase = "sync"
    /\ \E f \in DOMAIN dir : dir' = [g \in DOMAIN dir \ {f} |-> dir[g]]
    /\ run' = NoRun
    /\ UNCHANGED <<manifest, added, edited, sortVars, textVars, dateVars, viewVars, callVars>>

\* The author edits an entry of posts.json by hand: blanks its title and
\* tags, writes a description, gives it six tags, or marks it as a draft.
HandEdits ==
    [blank |-> [title |-> None, tags |-> Some(<< >>)],
     describe |-> [description |-> Some("by hand")],
     retag |-> [tags |-> Some(SixTags)],
     hide |-> [draft |-> TRUE]]

EditManifest ==
    /\ phase = "sync"
    /\ edited < MaxEdits
    /\ \E i \in DOMAIN manifest :
         \E e \in DOMAIN HandEdits :
           LET change == HandEdits[e]
               entry == [f \in DOMAIN manifest[i] \cup DOMAIN change |->
                            IF f \in DOMAIN change THEN change[f] ELSE manifest[i][f]]
           IN /\ entry # manifest[i]
              /\ manifest' = [manifest EXCEPT ![i] = entry]
    /\ edited' = edited + 1
    /\ run' = NoRun
    /\ UNCHANGED <<dir, added, sortVars, textVars, dateVars, viewVars, callVars>>

\* node scripts/sync-posts.js [--dry-run] [--no-rename] [--strip-meta] [--force]
\* While the record of a run is kept, only the same command is run again; a
\* run with other flags does the same from the state Forget leads to.
Sync ==
    /\ phase = "sync"
    /\ run.outcome # "aborted"
    /\ \E flags \in Flags :
         LET r == main(dir, manifest, flags, run)
         IN /\ run = NoRun \/ flags = run.flags
            /\ dir' = r.dir
            /\ manifest' = r.manifest
            /\ run' = r.run
    /\ UNCHANGED <<added, edited, sortVars, textVars, dateVars, viewVars, callVars>>

\* The record of the last run is dropped; the directory and the manifest stay.
Forget ==
    /\ phase = "sync"
    /\ run # NoRun
    /\ run' = NoRun
    /\ UNCHANGED <<dir, manifest, added, edited, sortVars, textVars, dateVars, viewVars, callVars>>

\* The site is loaded: the PostProvider fetches posts.json, filters the
\* drafts out and sorts the rest (a manifest that cannot be fetched gives
\* the empty list).
PostProvider ==
    /\ phase = "sync"
    /\ posts' = FilterDrafts(manifest)
    /\ depthMemo' = calculatePostDepths(FilterDrafts(manifest))
    /\ sorted' = sortPostsTopologicallyByTime(FilterDrafts(manifest))
    /\ phase' = "loaded"
    /\ UNCHANGED <<syncVars, textVars, dateVars, viewVars, callVars>>

Next == AddFile \/ DeleteFile \/ EditManifest \/ Sync \/ Forget \/ PostProvider

Spec == Init /\ [][Next]_vars

\* ------------------------------------------------------------------------
\* A run over a directory as the author left it
\* ------------------------------------------------------------------------
\* The manifests an earlier run wrote for one file, without flags or with
\* --no-rename, and no manifest.
EarlierManifests ==
    {<< >>} \cup
    {main((f :> c), << >>, [NoRun.flags EXCEPT !.noRename = n], NoRun).manifest :
        f \in Filenames, c \in FileContents, n \in BOOLEAN}

\* The calls of the file system that may throw in a run: readFileSync in
\* processPost, renameSync and writeFileSync in the apply loop.
FailingCalls == {"read", "rename", "write"}

\* The posts and the directory when the run comes to file k.
BeforeFailure(d, m, flags, k) ==
    LET existingPosts == IF flags.force THEN << >> ELSE loadExistingPosts(m)
        ps == ProcessAll(readdirSync(d), 1, d, existingPosts, flags)
    IN [posts |-> ps,
        dir |-> ApplyChanges(SubSeq(ps, 1, k - 1), 1, d, flags).dir]

\* The call op is made for file k of the run.
IsCalled(d, m, flags, k, op) ==
    /\ k \in 1..Len(readdirSync(d))
    /\ LET b == BeforeFailure(d, m, flags, k)
           post == b.posts[k]
       IN CASE op = "read" -> TRUE
            [] op = "rename" -> /\ ~flags.dryRun
                                /\ post.needsRename /\ ~flags.noRename
                                /\ post.newFilename \notin DOMAIN b.dir
            [] op = "write" -> ~flags.dryRun /\ flags.stripMeta /\ post.hasMetadata

\* The directory when the call op for file k throws: for a write, the
\* rename of the file is done.
DirAtFailure(d, m, flags, k, op) ==
    LET b == BeforeFailure(d, m, flags, k)
    IN IF op = "write"
       THEN ApplyPost(b.posts, k, b.dir, [flags EXCEPT !.stripMeta = FALSE]).dir
       ELSE IF op = "rename" THEN b.dir
       ELSE d

\* main() with posts.json written before the changes are applied.
mainWritingFirst(d, m, flags, prev, k, op) ==
    LET b == BeforeFailure(d, m, flags, k)
    IN [dir |-> DirAtFailure(d, m, flags, k, op),
        manifest |-> IF op = "read" THEN m
                     ELSE sortPostsTopologically(PostData(b.posts)),
        run |-> [outcome |-> "aborted", flags |-> flags, prior |-> m,
                 posts |-> IF op = "read" THEN SubSeq(b.posts, 1, k - 1) ELSE b.posts,
                 printed |-> << >>, inRow |-> FALSE]]

\* main() when the call op for file k throws: nothing catches the error, the
\* script ends there and the line that writes posts.json is not reached.
mainAborted(d, m, flags, prev, k, op) ==
    LET b == BeforeFailure(d, m, flags, k)
    IN [dir |-> DirAtFailure(d, m, flags, k, op),
        manifest |-> m,
        run |-> [outcome |-> "aborted", flags |-> flags, prior |-> m,
                 posts |-> IF op = "read" THEN SubSeq(b.posts, 1, k - 1) ELSE b.posts,
                 printed |-> << >>, inRow |-> FALSE]]

\* A run in which a call of the file system throws: the first run over the
\* directory.  Nothing is run after it: the author has to look into the
\* failure first.
SyncAborts ==
    /\ phase = "sync"
    /\ run = NoRun
    /\ \E flags \in Flags, k \in 1..Len(readdirSync(dir)), op \in FailingCalls :
         /\ IsCalled(dir, manifest, flags, k, op)
         /\ LET r == mainAborted(dir, manifest, flags, run, k, op)
            IN /\ dir' = r.dir
               /\ manifest' = r.manifest
               /\ run' = r.run
    /\ UNCHANGED <<added, edited, sortVars, textVars, dateVars, viewVars, callVars>>

\* Up to MaxFiles markdown files and the manifest of an earlier run.
DirInit ==
    /\ \E S \in SUBSET Filenames :
         /\ Cardinality(S) <= MaxFiles
         /\ dir \in [S -> FileContents]
    /\ manifest \in EarlierManifests
    /\ run = NoRun
    /\ added = 0
    /\ edited = 0
    /\ posts = << >>
    /\ depthMemo = << >>
    /\ sorted = << >>
    /\ phase = "sync"
    /\ fileText = << >>
    /\ stripRun = << >>
    /\ stack = << >>
    /\ cursor = 0
    /\ view = << >>
    /\ requests = {}
    /\ dateInput = << >>
    /\ resolved = << >>

DirNext == Sync \/ SyncAborts

DirSpec == DirInit /\ [][DirNext]_vars

\* ------------------------------------------------------------------------
\* Entry lists handed to the ordering
\* ------------------------------------------------------------------------
SlugName == <<"p1", "p2", "p3", "p4", "p5">>
UnknownSlug == "zz"
Repos == {None, Some(""), Some("b")}

SlugAt(j) == IF j = 0 THEN UnknownSlug ELSE SlugName[j]

\* A prerequisite edge <<i, j>>: entry i lists the slug of entry j (j = 0:
\* a slug that no entry has).
AllEdges(n) == {e \in (1..n) \X (0..n) : e[1] # e[2]}

RECURSIVE ReachFrom(_, _)
ReachFrom(E, S) ==
    LET T == S \cup {e[2] : e \in {x \in E : x[1] \in S}}
    IN IF T = S THEN S ELSE ReachFrom(E, T)

Acyclic(E) == \A e \in E : e[1] \notin ReachFrom(E, {e[2]})

RECURSIVE SeqOfTargets(_, _, _)
SeqOfTargets(E, i, j) ==
    IF j < 0 THEN << >>
    ELSE IF <<i, j>> \in E THEN <<SlugAt(j)>> \o SeqOfTargets(E, i, j - 1)
         ELSE SeqOfTargets(E, i, j - 1)

\* Entry i of a list of n entries; an entry without sourceRepo that lists
\* nothing has no prerequisites field, another one has an empty list.
MakePost(i, n, attr, E) ==
    LET prs == SeqOfTargets(E, i, n)
    IN [slug |-> SlugName[i],
        sourceRepo |-> attr[1],
        date |-> attr[2],
        prerequisites |-> IF prs = << >> /\ attr[1] = None THEN None ELSE Some(prs)]

SortInit ==
    /\ \E n \in 0..MaxPosts :
         \E E \in SUBSET AllEdges(n) :
           /\ Cardinality(E) \in EdgeCounts
           /\ Acyclic(E)
           /\ \E attrs \in [1..n -> Repos \X Dates] :
                posts = [i \in 1..n |-> MakePost(i, n, attrs[i], E)]
    /\ depthMemo = << >>
    /\ sorted = << >>
    /\ phase = "input"
    /\ dir = << >>
    /\ manifest = << >>
    /\ run = NoRun
    /\ added = 0
    /\ edited = 0
    /\ fileText = << >>
    /\ stripRun = << >>
    /\ stack = << >>
    /\ cursor = 0
    /\ view = << >>
    /\ requests = {}
    /\ dateInput = << >>
    /\ resolved = << >>

\* sortPostsTopologically(posts)
SortPostsTopologically ==
    /\ phase = "input"
    /\ depthMemo' = calculatePostDepths(posts)
    /\ sorted' = sortPostsTopologically(posts)
    /\ phase' = "sorted"
    /\ UNCHANGED <<posts, syncVars, textVars, dateVars, viewVars, callVars>>

SortNext == SortPostsTopologically

SortSpec == SortInit /\ [][SortNext]_vars

\* ------------------------------------------------------------------------
\* Manifests fetched by the site
\* ------------------------------------------------------------------------
LoadRepos == {None, Some("b")}

\* The draft field of an entry: absent, or true.
DraftFlags == {<< >>, [draft |-> TRUE]}

\* posts.json as the script wrote it (sorted by its sortPostsTopologically)
\* from up to MaxPosts entries, some of them marked as drafts.
LoadInit ==
    /\ \E n \in 0..MaxPosts :
         \E E \in SUBSET AllEdges(n) :
           /\ Cardinality(E) \in EdgeCounts
           /\ Acyclic(E)
           /\ \E attrs \in [1..n -> LoadRepos \X Dates] :
                \E drafts \in [1..n -> DraftFlags] :
                  manifest = sortPostsTopologically(
                      [i \in 1..n |-> drafts[i] @@ MakePost(i, n, attrs[i], E)])
    /\ posts = << >>
    /\ depthMemo = << >>
    /\ sorted = << >>
    /\ phase = "sync"
    /\ dir = << >>
    /\ run = NoRun
    /\ added = 0
    /\ edited = 0
    /\ fileText = << >>
    /\ stripRun = << >>
    /\ stack = << >>
    /\ cursor = 0
    /\ view = << >>
    /\ requests = {}
    /\ dateInput = << >>
    /\ resolved = << >>

LoadNext == PostProvider

LoadSpec == LoadInit /\ [][LoadNext]_vars

\* ------------------------------------------------------------------------
\* calculateDepth, call by call
\* ------------------------------------------------------------------------
\* The call stack has room for StackLimit calls of calculateDepth: one more
\* raises RangeError (Maximum call stack size exceeded).
StackLimit == MaxPosts + 2

\* Entry lists whose prerequisites may lead back to the entry itself.
AllEdgesWithSelf(n) == (1..n) \X (0..n)

DepthInit ==
    /\ \E n \in 1..MaxPosts :
         \E E \in SUBSET AllEdgesWithSelf(n) :
           /\ Cardinality(E) \in EdgeCounts
           /\ \E repo \in {None, Some("")} :
                posts = [i \in 1..n |-> MakePost(i, n, <<repo, 1>>, E)]
    /\ depthMemo = << >>
    /\ stack = << >>
    /\ cursor = 1
    /\ view = << >>
    /\ requests = {}
    /\ dateInput = << >>
    /\ resolved = << >>
    /\ phase = "depths"
    /\ sorted = << >>
    /\ dir = << >>
    /\ manifest = << >>
    /\ run = NoRun
    /\ added = 0
    /\ edited = 0
    /\ fileText = << >>
    /\ stripRun = << >>

\* A call of calculateDepth(post): at its entry, or in its loop before
\* prerequisite i with maxPrereqDepth = max.
Call(post) == [post |-> post, pc |-> "entry", i |-> 1, max |-> -1]

Top == stack[Len(stack)]

HasPrerequisites(post) == post.prerequisites # None /\ Len(post.prerequisites[1]) > 0

\* The stack after the innermost call returned v: the caller takes
\* Math.max(maxPrereqDepth, v) and goes on to its next prerequisite.
Returned(v) ==
    LET rest == SubSeq(stack, 1, Len(stack) - 1)
    IN IF rest = << >> THEN rest
       ELSE [rest EXCEPT ![Len(rest)].max = Max2(@, v), ![Len(rest)].i = @ + 1]

\* posts.forEach(p => calculateDepth(p)): the call for the next entry.
CallForEach ==
    /\ phase = "depths"
    /\ stack = << >>
    /\ cursor <= Len(posts)
    /\ stack' = <<Call(posts[cursor])>>
    /\ cursor' = cursor + 1
    /\ UNCHANGED <<posts, depthMemo, sorted, phase, syncVars, textVars, dateVars, viewVars>>

\* forEach is through: the depths are computed.
ForEachDone ==
    /\ phase = "depths"
    /\ stack = << >>
    /\ cursor > Len(posts)
    /\ phase' = "done"
    /\ UNCHANGED <<posts, depthMemo, sorted, syncVars, textVars, dateVars, viewVars, callVars>>

\* if (memo.has(post.slug)) return memo.get(post.slug)
ReturnMemo ==
    /\ phase = "depths"
    /\ stack # << >>
    /\ Top.pc = "entry"
    /\ Top.post.slug \in DOMAIN depthMemo
    /\ stack' = Returned(depthMemo[Top.post.slug])
    /\ UNCHANGED <<posts, depthMemo, sorted, phase, cursor, syncVars, textVars, dateVars, viewVars>>

\* No prerequisites: memo.set(post.slug, 0); return 0
ReturnZero ==
    /\ phase = "depths"
    /\ stack # << >>
    /\ Top.pc = "entry"
    /\ Top.post.slug \notin DOMAIN depthMemo
    /\ ~HasPrerequisites(Top.post)
    /\ depthMemo' = (Top.post.slug :> 0) @@ depthMemo
    /\ stack' = Returned(0)
    /\ UNCHANGED <<posts, sorted, phase, cursor, syncVars, textVars, dateVars, viewVars>>

\* The call with the memo written on entry, before the prerequisites are
\* evaluated.
EnterLoopMemoFirst ==
    /\ phase = "depths"
    /\ stack # << >>
    /\ Top.pc = "entry"
    /\ Top.post.slug \notin DOMAIN depthMemo
    /\ HasPrerequisites(Top.post)
    /\ depthMemo' = (Top.post.slug :> 0) @@ depthMemo
    /\ stack' = [stack EXCEPT ![Len(stack)].pc = "loop"]
    /\ UNCHANGED <<posts, sorted, phase, cursor, syncVars, textVars, dateVars, viewVars>>

\* let maxPrereqDepth = -1; for (const prereqSlug of post.prerequisites)
EnterLoop ==
    /\ phase = "depths"
    /\ stack # << >>
    /\ Top.pc = "entry"
    /\ Top.post.slug \notin DOMAIN depthMemo
    /\ HasPrerequisites(Top.post)
    /\ stack' = [stack EXCEPT ![Len(stack)].pc = "loop"]
    /\ UNCHANGED <<posts, depthMemo, sorted, phase, cursor, syncVars, textVars, dateVars, viewVars>>

InLoop ==
    /\ phase = "depths"
    /\ stack # << >>
    /\ Top.pc = "loop"
    /\ Top.i <= Len(Top.post.prerequisites[1])

prereqSlug == Top.post.prerequisites[1][Top.i]

\* postsBySlug.get(prereqSlug) is undefined: the prerequisite is passed over.
SkipUnknown ==
    /\ InLoop
    /\ prereqSlug \notin DOMAIN PostsBySlug(posts)
    /\ stack' = [stack EXCEPT ![Len(stack)].i = @ + 1]
    /\ UNCHANGED <<posts, depthMemo, sorted, phase, cursor, syncVars, textVars, dateVars, viewVars>>

\* calculateDepth(prereq, postsBySlug, memo)
CallPrereq ==
    /\ InLoop
    /\ prereqSlug \in DOMAIN PostsBySlug(posts)
    /\ Len(stack) < StackLimit
    /\ stack' = Append(stack, Call(PostsBySlug(posts)[prereqSlug]))
    /\ UNCHANGED <<posts, depthMemo, sorted, phase, cursor, syncVars, textVars, dateVars, viewVars>>

\* The same call with the stack full: RangeError, nothing is returned.
StackOverflow ==
    /\ InLoop
    /\ prereqSlug \in DOMAIN PostsBySlug(posts)
    /\ Len(stack) = StackLimit
    /\ phase' = "overflow"
    /\ UNCHANGED <<posts, depthMemo, sorted, syncVars, textVars, dateVars, viewVars, callVars>>

\* const depth = maxPrereqDepth + 1; memo.set(post.slug, depth); return depth
ReturnDepth ==
    /\ phase = "depths"
    /\ stack # << >>
    /\ Top.pc = "loop"
    /\ Top.i > Len(Top.post.prerequisites[1])
    /\ depthMemo' = (Top.post.slug :> Top.max + 1) @@ depthMemo
    /\ stack' = Returned(Top.max + 1)
    /\ UNCHANGED <<posts, sorted, phase, cursor, syncVars, textVars, dateVars, viewVars>>

DepthNext ==
    \/ CallForEach
    \/ ForEachDone
    \/ ReturnMemo
    \/ ReturnZero
    \/ EnterLoop
    \/ SkipUnknown
    \/ CallPrereq
    \/ StackOverflow
    \/ ReturnDepth

DepthSpec == DepthInit /\ [][DepthNext]_vars

\* A call in progress goes on: the script does nothing else meanwhile.
DepthLiveSpec == DepthSpec /\ WF_vars(DepthNext)

\* ------------------------------------------------------------------------
\* The text of a markdown file (parseYamlFrontmatter, parseCommentMetadata,
\* stripMetadata)
\* ------------------------------------------------------------------------
\* A text is the sequence of its lines, content.split('\n'): the empty text
\* is <<"">>.  The lines of the model:
\*   "---"         the fence of a frontmatter block
\*   "title: T"    a key: value line
\*   "<!-- ---"    the opening of a frontmatter block in an HTML comment
\*   "--- -->"     the closing of such a block
\*   "// tags: x"  a comment-style key: value line
\*   "// ---"      a comment-style rule
\*   "text", ""    a line of prose, a blank line
LineKinds == {"---", "title: T", "<!-- ---", "--- -->", "// tags: x", "// ---", "text", ""}

Texts == UNION {[1..n -> LineKinds] : n \in 1..MaxLines}

\* lines.join('\n') of no line is the empty text.
Joined(lines) == IF lines = << >> THEN <<"">> ELSE lines

\* /\n---/ matches at the start of the line; what follows it on the line.
StartsWithDashes(line) == line \in {"---", "--- -->"}
RestAfterDashes(line) == IF line = "---" THEN "" ELSE " -->"

\* /\n---\s*-->/ matches at the start of the line.
ClosesComment(line) == line = "--- -->"

\* /^\/\/\s*(\w+):\s*(.+)$/ and /^\/\/\s*---\s*$/
IsMetaComment(line) == line = "// tags: x"
IsCommentRule(line) == line = "// ---"

\* The first line from line i on that closes the block ([\s\S]*? is lazy), 0
\* when there is none.
RECURSIVE FirstDashes(_, _)
FirstDashes(lines, i) ==
    IF i > Len(lines) THEN 0
    ELSE IF StartsWithDashes(lines[i]) THEN i ELSE FirstDashes(lines, i + 1)

RECURSIVE FirstCommentClose(_, _)
FirstCommentClose(lines, i) ==
    IF i > Len(lines) THEN 0
    ELSE IF ClosesComment(lines[i]) THEN i ELSE FirstCommentClose(lines, i + 1)

\* The text after a match that ends on line j with rest left of that line:
\* \n? takes the line break when nothing is left of the line.
AfterMatch(lines, j, rest) ==
    IF rest = ""
    THEN IF j = Len(lines) THEN <<"">> ELSE SubSeq(lines, j + 1, Len(lines))
    ELSE <<rest>> \o SubSeq(lines, j + 1, Len(lines))

\* /^---\n([\s\S]*?)\n---\n?/ : the line that closes the block, 0 without
\* match.  The block has at least one line between the fences.
MatchFrontmatter(lines) ==
    IF Len(lines) >= 3 /\ lines[1] = "---" THEN FirstDashes(lines, 3) ELSE 0

\* /^<!--\s*---\n([\s\S]*?)\n---\s*-->\n?/
MatchCommentFrontmatter(lines) ==
    IF Len(lines) >= 3 /\ lines[1] = "<!-- ---" THEN FirstCommentClose(lines, 3) ELSE 0

\* parseYamlLines: the keys of the lines that have a colon, with their values.
KeyedLines == {"title: T", "// tags: x"}
KeyOf(line) == IF line = "title: T" THEN "title" ELSE "// tags"

parseYamlLines(lines) ==
    [key \in {KeyOf(lines[i]) : i \in {k \in DOMAIN lines : lines[k] \in KeyedLines}} |->
        IF key = "title" THEN "T" ELSE "x"]

\* parseYamlFrontmatter(content): null (None), or data and body.
parseYamlFrontmatter(lines) ==
    IF MatchFrontmatter(lines) # 0
    THEN LET j == MatchFrontmatter(lines)
         IN Some([data |-> parseYamlLines(SubSeq(lines, 2, j - 1)),
                  body |-> AfterMatch(lines, j, RestAfterDashes(lines[j]))])
    ELSE IF MatchCommentFrontmatter(lines) # 0
    THEN LET j == MatchCommentFrontmatter(lines)
         IN Some([data |-> parseYamlLines(SubSeq(lines, 2, j - 1)),
                  body |-> AfterMatch(lines, j, "")])
    ELSE None

IsBodyLine(line) == ~IsMetaComment(line) /\ ~IsCommentRule(line)

\* parseCommentMetadata(content): null (None) without a key: value comment,
\* or data and the body without the comment-style lines.
parseCommentMetadata(lines) ==
    IF \E i \in DOMAIN lines : IsMetaComment(lines[i])
    THEN Some([data |-> ("tags" :> "x"),
               body |-> Joined(SelectSeq(lines, IsBodyLine))])
    ELSE None

\* extractMetadataFromFile: meta, body and hasMetadata.  An empty body is
\* falsy, so that the next body is taken.
ReadMetadata(lines) ==
    LET yaml == parseYamlFrontmatter(lines)
        comments == parseCommentMetadata(lines)
    IN [meta |-> IF yaml # None THEN yaml[1].data
                 ELSE IF comments # None THEN comments[1].data ELSE << >>,
        body |-> IF yaml # None /\ yaml[1].body # <<"">> THEN yaml[1].body
                 ELSE IF comments # None /\ comments[1].body # <<"">> THEN comments[1].body
                 ELSE lines,
        hasMetadata |-> yaml # None \/ comments # None]

\* .replace(/^\n+/, ''): the text without its leading line breaks.
RECURSIVE DropLeadingBreaks(_)
DropLeadingBreaks(lines) ==
    IF Len(lines) > 1 /\ lines[1] = "" THEN DropLeadingBreaks(Tail(lines)) ELSE lines

\* stripMetadata(content) on the text of the file.
stripMetadataText(lines) ==
    LET s1 == IF MatchFrontmatter(lines) # 0
              THEN AfterMatch(lines, MatchFrontmatter(lines),
                              RestAfterDashes(lines[MatchFrontmatter(lines)]))
              ELSE lines
        s2 == IF MatchCommentFrontmatter(s1) # 0
              THEN AfterMatch(s1, MatchCommentFrontmatter(s1), "")
              ELSE s1
        cleanLines == SelectSeq(s2, IsBodyLine)
    IN DropLeadingBreaks(Joined(cleanLines))

\* A markdown file of up to MaxLines lines.
TextInit ==
    /\ fileText \in Texts
    /\ stripRun = << >>
    /\ stack = << >>
    /\ cursor = 0
    /\ view = << >>
    /\ requests = {}
    /\ dateInput = << >>
    /\ resolved = << >>
    /\ phase = "text"
    /\ posts = << >>
    /\ depthMemo = << >>
    /\ sorted = << >>
    /\ dir = << >>
    /\ manifest = << >>
    /\ run = NoRun
    /\ added = 0
    /\ edited = 0

\* The file is extracted and, under --strip-meta, rewritten when it has
\* metadata: if (STRIP_META && post.hasMetadata) writeFileSync(...).
StripFile ==
    /\ phase = "text"
    /\ LET read == ReadMetadata(fileText)
       IN stripRun' = [original |-> fileText,
                       hasMetadata |-> read.hasMetadata,
                       meta |-> read.meta,
                       body |-> read.body,
                       written |-> IF read.hasMetadata
                                   THEN Some(stripMetadataText(fileText)) ELSE None]
    /\ fileText' = IF ReadMetadata(fileText).hasMetadata
                  THEN stripMetadataText(fileText) ELSE fileText
    /\ phase' = "stripped"
    /\ UNCHANGED <<posts, depthMemo, sorted, syncVars, callVars, dateVars, viewVars>>

TextNext == StripFile

TextSpec == TextInit /\ [][TextNext]_vars

\* ------------------------------------------------------------------------
\* The date of a file (parseValue, parseDate, extractDateFromFilename,
\* getFileDate)
\* ------------------------------------------------------------------------
\* A date text is the sequence of its parts between the hyphens: "2-1-2025"
\* is <<"2", "1", "2025">>.  The parts of the model, with their number of
\* digits (0: not a number):
DateParts == {"1", "2", "01", "02", "2025", "soon"}

DigitCount(part) ==
    CASE part \in {"1", "2"} -> 1
      [] part \in {"01", "02"} -> 2
      [] part = "2025" -> 4
      [] OTHER -> 0

\* part.padStart(2, '0')
PadStart(part) ==
    CASE part = "1" -> "01"
      [] part = "2" -> "02"
      [] OTHER -> part

\* The texts after 'created:' and 'date:' in a metadata block: a date with
\* the year first, with the year last (padded or not), with the year first
\* and not padded, a word, or a date in brackets.
DateTexts ==
    {<<"2025", "01", "02">>, <<"2", "1", "2025">>, <<"02", "01", "2025">>,
     <<"2025", "1", "2">>, <<"soon">>}

\* parseValue(str) for these texts: no text is null (None), a text in
\* brackets is the array of its items, any other text is the string itself.
FieldValues ==
    {None} \cup {[str |-> t] : t \in DateTexts}
           \cup {[list |-> <<t>>] : t \in {<<"2025", "01", "02">>}}

IsString(value) == value # None /\ "str" \in DOMAIN value

\* /^(\d{1,2})-(\d{1,2})-(\d{4})$/
MatchesDmy(t) ==
    /\ Len(t) = 3
    /\ DigitCount(t[1]) \in {1, 2}
    /\ DigitCount(t[2]) \in {1, 2}
    /\ DigitCount(t[3]) = 4

\* /^\d{4}-\d{2}-\d{2}$/
MatchesIso(t) ==
    /\ Len(t) = 3
    /\ DigitCount(t[1]) = 4
    /\ DigitCount(t[2]) = 2
    /\ DigitCount(t[3]) = 2

\* `${dmy[3]}-${dmy[2].padStart(2, '0')}-${dmy[1].padStart(2, '0')}`
ReorderDmy(t) == <<t[3], PadStart(t[2]), PadStart(t[1])>>

\* The outcome of a call: a value (None for null), or a TypeError thrown.
Value(v) == [threw |-> FALSE, value |-> v]
TypeError == [threw |-> TRUE, value |-> None]

\* parseDate(dateStr): an array has no method 'match'.
parseDate(dateStr) ==
    IF dateStr = None THEN Value(None)
    ELSE IF ~IsString(dateStr) THEN TypeError
    ELSE IF MatchesDmy(dateStr.str) THEN Value(Some(ReorderDmy(dateStr.str)))
    ELSE IF MatchesIso(dateStr.str) THEN Value(Some(dateStr.str))
    ELSE Value(None)

\* The date prefixes of a file name: none, or the parts before the name.
PrefixTexts ==
    {<< >>, <<"2025", "01", "02">>, <<"1", "2", "2025">>, <<"2025", "1", "2">>}

\* extractDateFromFilename(filename) on the parts of the prefix.
extractDateFromPrefix(t) ==
    IF MatchesIso(t) THEN Some(t)
    ELSE IF MatchesDmy(t) THEN Some(ReorderDmy(t))
    ELSE None

\* getFileDate(filepath): the day of the modification time.
FileDates == {<<"2025", "01", "01">>, <<"2025", "02", "02">>}

\* a || b: b is evaluated only when a is null.
OrElse(a, b) == IF a.threw \/ a.value # None THEN a ELSE b

\* parseDate(meta.created) || parseDate(meta.date) ||
\* extractDateFromFilename(filename) || getFileDate(filepath)
ResolveDate(in) ==
    OrElse(parseDate(in.created),
           OrElse(parseDate(in.date),
                  OrElse(Value(extractDateFromPrefix(in.prefix)),
                         Value(Some(in.mtime)))))

\* A file with its 'created' and 'date' fields, the date prefix of its name
\* and its modification time.
DateInit ==
    /\ dateInput \in [created : FieldValues, date : FieldValues,
                      prefix : PrefixTexts, mtime : FileDates]
    /\ resolved = << >>
    /\ phase = "date"
    /\ posts = << >>
    /\ depthMemo = << >>
    /\ sorted = << >>
    /\ dir = << >>
    /\ manifest = << >>
    /\ run = NoRun
    /\ added = 0
    /\ edited = 0
    /\ fileText = << >>
    /\ stripRun = << >>
    /\ stack = << >>
    /\ cursor = 0
    /\ view = << >>
    /\ requests = {}

\* extractMetadataFromFile comes to the date of the file.
ExtractDate ==
    /\ phase = "date"
    /\ resolved' = ResolveDate(dateInput)
    /\ phase' = "dated"
    /\ UNCHANGED <<posts, depthMemo, sorted, syncVars, textVars, callVars, dateInput, viewVars>>

DateNext == ExtractDate

DateSpec == DateInit /\ [][DateNext]_vars

\* ------------------------------------------------------------------------
\* PostView: the loads of a post
\* ------------------------------------------------------------------------
MaxLoads == 3    \* request chains started while the component is mounted

RouteSlugs == {"A", "B"}

\* The component after the calls of useState: post null, loading true,
\* error null.  loads counts the runs of the effect.
InitialView(slug) ==
    [slug |-> slug, post |-> None, loading |-> TRUE, error |-> None, loads |-> 1]

\* posts.json with the entries of some slugs, in any order of the slugs.
ManifestOf(slugs) ==
    CHOOSE m \in [1..Cardinality(slugs) -> {[slug |-> x] : x \in slugs}] :
        {m[i].slug : i \in DOMAIN m} = slugs

\* The slugs that have an entry in posts.json: posts.find(p => p.slug === slug).
Listed == {manifest[i].slug : i \in DOMAIN manifest}

\* The markdown file of a slug can be fetched: res.ok.
Served(slug) == WithMd(slug) \in DOMAIN dir

\* useEffect(..., [slug]): fetch('/posts/posts.json') is sent for the slug.
StartLoad(slug, id) == [id |-> id, slug |-> slug, stage |-> "manifest"]

\* The page is opened on /posts/:slug; the server holds posts.json with
\* the entries of some of the slugs and the markdown files of some.
ViewInit ==
    /\ \E s \in RouteSlugs :
         /\ view = InitialView(s)
         /\ requests = {StartLoad(s, 1)}
    /\ \E listed \in SUBSET RouteSlugs : manifest = ManifestOf(listed)
    /\ \E served \in SUBSET RouteSlugs : dir = [f \in {WithMd(x) : x \in served} |-> "text"]
    /\ phase = "view"
    /\ posts = << >>
    /\ depthMemo = << >>
    /\ sorted = << >>
    /\ run = NoRun
    /\ added = 0
    /\ edited = 0
    /\ fileText = << >>
    /\ stripRun = << >>
    /\ stack = << >>
    /\ cursor = 0
    /\ dateInput = << >>
    /\ resolved = << >>

\* The route changes to another slug: the effect runs again for it.  The
\* effect has no cleanup and resets no state.
Navigate ==
    /\ phase = "view"
    /\ view.loads < MaxLoads
    /\ \E s \in RouteSlugs \ {view.slug} :
         /\ view' = [view EXCEPT !.slug = s, !.loads = @ + 1]
         /\ requests' = requests \cup {StartLoad(s, view.loads + 1)}
    /\ UNCHANGED <<sortVars, syncVars, textVars, callVars, dateVars>>

\* posts.json arrives and has the entry of the slug the chain was started
\* for: fetch(`/posts/${meta.slug}.md`) is sent.
ManifestArrives ==
    /\ phase = "view"
    /\ \E r \in requests :
         /\ r.stage = "manifest"
         /\ r.slug \in Listed
         /\ requests' = (requests \ {r}) \cup {[r EXCEPT !.stage = "content"]}
    /\ UNCHANGED <<view, sortVars, syncVars, textVars, callVars, dateVars>>

\* posts.json arrives without the entry: throw new Error('Post not found'),
\* caught by setError(err.message); setLoading(false).
PostNotFound ==
    /\ phase = "view"
    /\ \E r \in requests :
         /\ r.stage = "manifest"
         /\ r.slug \notin Listed
         /\ requests' = requests \ {r}
         /\ view' = [view EXCEPT !.error = Some("Post not found"), !.loading = FALSE]
    /\ UNCHANGED <<sortVars, syncVars, textVars, callVars, dateVars>>

\* The markdown file arrives: setPost({ ...meta, content }); setLoading(false).
ContentArrives ==
    /\ phase = "view"
    /\ \E r \in requests :
         /\ r.stage = "content"
         /\ Served(r.slug)
         /\ requests' = requests \ {r}
         /\ view' = [view EXCEPT !.post = Some(r.slug), !.loading = FALSE]
    /\ UNCHANGED <<sortVars, syncVars, textVars, callVars, dateVars>>

\* The markdown file is not there: throw new Error('Post content not found').
ContentNotFound ==
    /\ phase = "view"
    /\ \E r \in requests :
         /\ r.stage = "content"
         /\ ~Served(r.slug)
         /\ requests' = requests \ {r}
         /\ view' = [view EXCEPT !.error = Some("Post content not found"), !.loading = FALSE]
    /\ UNCHANGED <<sortVars, syncVars, textVars, callVars, dateVars>>

ViewNext ==
    \/ Navigate
    \/ ManifestArrives
    \/ PostNotFound
    \/ ContentArrives
    \/ ContentNotFound

ViewSpec == ViewInit /\ [][ViewNext]_vars

\* ------------------------------------------------------------------------
\* Properties of the ordering
\* ------------------------------------------------------------------------
\* The prerequisites of an entry that are slugs of entries of the list ps.
Resolvable(ps, p) ==
    IF p.prerequisites = None THEN {}
    ELSE Range(p.prerequisites[1]) \cap {ps[i].slug : i \in DOMAIN ps}

MaxOf(S) == CHOOSE x \in S : \A y \in S : y <= x

\* The entries of ps whose slug entry i lists as prerequisite.
ResolvableAt(ps, i) ==
    IF ps[i].prerequisites = None THEN {}
    ELSE {j \in DOMAIN ps :
            \E k \in DOMAIN ps[i].prerequisites[1] : ps[i].prerequisites[1][k] = ps[j].slug}

\* The length of the longest chain of resolvable prerequisites from each
\* entry, by relaxation: after k rounds the chains of length up to k.
RECURSIVE ChainLengths(_, _, _)
ChainLengths(ps, len, k) ==
    IF k = 0 THEN len
    ELSE ChainLengths(ps,
            [i \in DOMAIN ps |->
                IF ResolvableAt(ps, i) = {} THEN 0
                ELSE 1 + MaxOf({len[j] : j \in ResolvableAt(ps, i)})],
            k - 1)

LongestChain(ps) == ChainLengths(ps, [i \in DOMAIN ps |-> 0], Len(ps))

PositionOf(ps, slug) == CHOOSE i \in DOMAIN ps : ps[i].slug = slug

\* C1: the list returned by sortPostsTopologically has the entries in
\* ascending sourceRepo order (absent as ''), so those of one sourceRepo are
\* contiguous; within one sourceRepo the depth never decreases; and among
\* entries of equal sourceRepo and depth the date never increases.
C1_TotalOrder ==
    phase = "sorted" =>
        \A i, j \in DOMAIN sorted :
            i < j =>
                /\ StrRank(RepoOf(sorted[i])) <= StrRank(RepoOf(sorted[j]))
                /\ RepoOf(sorted[i]) = RepoOf(sorted[j]) =>
                      /\ depthMemo[sorted[i].slug] <= depthMemo[sorted[j].slug]
                      /\ depthMemo[sorted[i].slug] = depthMemo[sorted[j].slug] =>
                            sorted[i].date >= sorted[j].date

\* A sorted list of three entries that came in another order: an entry of
\* sourceRepo "b" first, then an entry without sourceRepo that requires the
\* last one, whose sourceRepo is '' and whose date is the older one.
C1_Witness ==
    /\ phase = "sorted"
    /\ Len(sorted) = 3
    /\ posts[1].sourceRepo = Some("b")
    /\ posts[2].sourceRepo = None /\ posts[2].date = 2
    /\ posts[3].sourceRepo = Some("") /\ posts[3].date = 1
    /\ depthMemo[posts[2].slug] = 1 /\ depthMemo[posts[3].slug] = 0
    /\ sorted = <<posts[3], posts[2], posts[1]>>

\* C2: the depth computed for an entry is 0 when it has no prerequisite that
\* is the slug of an entry, otherwise 1 plus the largest depth of those that
\* are; it is the length of the longest chain of resolvable prerequisites.
C2_DepthDefinition ==
    phase = "sorted" =>
        /\ DOMAIN depthMemo = {posts[i].slug : i \in DOMAIN posts}
        /\ \A i \in DOMAIN posts :
              LET res == Resolvable(posts, posts[i])
              IN depthMemo[posts[i].slug] =
                    IF res = {} THEN 0 ELSE 1 + MaxOf({depthMemo[q] : q \in res})
        /\ [i \in DOMAIN posts |-> depthMemo[posts[i].slug]] = LongestChain(posts)

\* Depths were computed for an entry of depth 1 that lists an unknown slug
\* next to a resolvable one, and for an entry of depth 2 that requires it.
C2_Witness ==
    /\ phase = "sorted"
    /\ \E i, j \in DOMAIN posts :
          /\ posts[j].prerequisites # None
          /\ UnknownSlug \in Range(posts[j].prerequisites[1])
          /\ Resolvable(posts, posts[j]) # {}
          /\ depthMemo[posts[j].slug] = 1
          /\ posts[j].slug \in Resolvable(posts, posts[i])
          /\ depthMemo[posts[i].slug] = 2

\* C3: an entry that lists the slug of another entry of the list as a
\* prerequisite has a strictly greater depth than that entry.
C3_DepthMonotonic ==
    phase = "sorted" =>
        \A i \in DOMAIN posts :
            \A q \in Resolvable(posts, posts[i]) :
                depthMemo[posts[i].slug] > depthMemo[q]

\* Depths were computed for an entry with two resolvable prerequisites of
\* depths 0 and 1.
C3_Witness ==
    /\ phase = "sorted"
    /\ \E i \in DOMAIN posts :
          \E q, r \in Resolvable(posts, posts[i]) :
              /\ depthMemo[q] = 0
              /\ depthMemo[r] = 1
              /\ depthMemo[posts[i].slug] = 2

SlugsOf(m) == {m[i].slug : i \in DOMAIN m}

UniqueSlugs(m) == \A i, j \in DOMAIN m : m[i].slug = m[j].slug => i = j

\* The run went past the dry-run exit: it wrote the manifest.
Written == run.outcome = "written"

\* The entry of the previous manifest that a file of the run was matched to.
PriorOf(post) == PostsBySlug(run.prior)[post.existingSlug[1]]

AllFields == REQUIRED_FIELDS \o optionalFields

\* C5, as stated: no two entries of a manifest written by a sync run have the
\* same slug, when the slugs of the previous manifest were unique.
C5_UniqueSlugs ==
    (Written /\ UniqueSlugs(run.prior)) => UniqueSlugs(manifest)

\* C6, as stated: after a sync that is not a dry run, the slug of every entry
\* of the manifest is the name without '.md' that its markdown file has after
\* the run, and the file '<slug>.md' exists.
C6_SlugIsFileStem ==
    Written =>
        \A i \in DOMAIN run.posts :
            /\ run.posts[i].postData.slug = StripMd(run.posts[i].filepath)
            /\ WithMd(run.posts[i].postData.slug) \in DOMAIN dir

\* A slug of the previous manifest that is still in the manifest after the
\* run has a source file: a file of the run was looked up under it, or the
\* file '<slug>.md' exists.
HasSourceFile(slug) ==
    \/ \E i \in DOMAIN run.posts : slug \in Range(possibleSlugs(run.posts[i].filename))
    \/ WithMd(slug) \in DOMAIN dir

\* C7, as stated: after a sync that is not a dry run, the directory being
\* empty or not, the manifest holds no slug of the previous manifest whose
\* source file no longer exists.
C7_StaleSlugsRemoved ==
    (run.outcome \in {"written", "noFiles"} /\ ~run.flags.dryRun) =>
        \A slug \in SlugsOf(run.prior) \cap SlugsOf(manifest) : HasSourceFile(slug)

\* C8, as stated: a sync without --force that follows a sync with the same
\* flags, nothing being added, removed or edited in between, extracts
\* nothing, renames nothing and writes the manifest it found.
C8_Idempotent ==
    (Written /\ run.inRow /\ ~run.flags.force) =>
        /\ \A i \in DOMAIN run.posts :
              ~run.posts[i].needsExtraction /\ ~run.posts[i].renamed
        /\ manifest = run.prior

\* C9, as stated: when a sync without --force merges a matched entry with a
\* fresh extraction, each field of the merged entry is the previous value
\* when that is present and not empty (an empty string and an empty list are
\* empty), otherwise the extracted value.
C9_MergePrecedence ==
    run.outcome # "none" =>
        \A i \in DOMAIN run.posts :
            run.posts[i].merged =>
                \A k \in DOMAIN AllFields :
                    LET f == AllFields[k]
                    IN run.posts[i].processed[f] =
                          IF ~FalsyOrEmpty(f, PriorOf(run.posts[i])[f])
                          THEN PriorOf(run.posts[i])[f]
                          ELSE run.posts[i].extracted[1][f]

\* A file of a run without --force was matched to an entry of the previous
\* manifest that has its four required fields.
MatchedComplete(post) ==
    /\ ~run.flags.force
    /\ post.existingSlug # None
    /\ ~hasMissingFields(PriorOf(post))

\* The entry but for its slug.
WithoutSlug(entry) == [f \in DOMAIN entry \ {"slug"} |-> entry[f]]

PriorDir ==
    [f \in {run.posts[i].filename : i \in DOMAIN run.posts} |->
        run.posts[CHOOSE i \in DOMAIN run.posts : run.posts[i].filename = f].originalContent]

\* C11: after a run with --dry-run, whatever the other flags, the directory
\* has the files the run found, with their names and contents, and the
\* manifest is the one the run found.
C11_DryRunWritesNothing ==
    run.outcome = "dryRun" => (dir = PriorDir /\ manifest = run.prior)

\* A dry run with --strip-meta found a file with a metadata block that a run
\* would rename, and a manifest other than the one it printed.
C11_Witness ==
    /\ run.outcome = "dryRun"
    /\ run.flags.stripMeta /\ ~run.flags.noRename
    /\ \E i \in DOMAIN run.posts :
          run.posts[i].needsRename /\ run.posts[i].hasMetadata
    /\ run.printed # manifest

\* The manifest that the run would write without --dry-run, its other flags
\* the same, over the directory and the manifest that the dry run found.
WouldWrite ==
    main(PriorDir, run.prior, [run.flags EXCEPT !.dryRun = FALSE], NoRun).manifest

\* C12, as stated: the manifest printed by a run with --dry-run is the
\* manifest that the same run without --dry-run would write: the same
\* entries with the same slugs in the same order.
C12_DryRunPreview ==
    run.outcome = "dryRun" => run.printed = WouldWrite

\* C13, as stated: a run with --no-rename renames no file, and the slug of
\* every entry of the manifest it writes is the name without '.md' of the
\* file the entry was made for, the entry being extracted, merged or reused.
C13_NoRenameSlugs ==
    (Written /\ run.flags.noRename) =>
        /\ DOMAIN dir = DOMAIN PriorDir
        /\ \A i \in DOMAIN run.posts :
              /\ ~run.posts[i].renamed
              /\ run.posts[i].postData.slug = StripMd(run.posts[i].filename)

\* C14: the manifest written by a run with --force is the manifest that the
\* same run writes over the same files when there is no previous manifest:
\* it depends on the files only, whatever the previous manifest holds.
C14_ForceIgnoresManifest ==
    (Written /\ run.flags.force) =>
        manifest = main(PriorDir, << >>, run.flags, NoRun).manifest

\* A run with --force found a manifest with a description written by hand
\* and an entry whose file was deleted, and wrote another manifest.
C14_Witness ==
    /\ Written /\ run.flags.force
    /\ \E i \in DOMAIN run.prior : run.prior[i].description = Some("by hand")
    /\ \E i \in DOMAIN run.prior :
          /\ run.prior[i].slug \notin SlugsOf(manifest)
          /\ WithMd(run.prior[i].slug) \notin DOMAIN PriorDir
    /\ \A j \in DOMAIN manifest : manifest[j].description # Some("by hand")

\* The number of tags an extraction keeps: .slice(0, 5).
TagCap == 5

\* The run went past the processing of the files.
Processed == run.outcome \in {"dryRun", "written"}

\* The manifest that the run wrote or, in a dry run, printed.
Produced == IF run.outcome = "dryRun" THEN run.printed ELSE manifest

\* C15, as stated: every entry of a manifest that a run wrote or printed has
\* at most 5 tags, the entries reused or merged from the previous manifest
\* too.
C15_TagCap ==
    Processed =>
        \A j \in DOMAIN Produced :
            Produced[j].tags # None => Len(Produced[j].tags[1]) <= TagCap

\* The name 'D-B' for the date D that an extraction resolves for the file of
\* a post and the name B of the file without date prefix and extension.
CanonicalStem(post) ==
    [k |-> "iso",
     d |-> IF post.originalContent.created # 0 THEN post.originalContent.created
           ELSE IF post.filename.stem.k # "bare" THEN post.filename.stem.d
           ELSE post.originalContent.mtime,
     b |-> post.filename.stem.b]

\* The file of the post is named 'D-B.md' after the run and its entry has
\* slug 'D-B' and date D.
RenamedToCanonical(post) ==
    /\ post.postData.slug = CanonicalStem(post)
    /\ post.postData.date = CanonicalStem(post).d
    /\ post.filepath = [stem |-> CanonicalStem(post), ext |-> "md"]
    /\ post.filepath \in DOMAIN dir
    /\ \E j \in DOMAIN manifest : manifest[j] = post.postData

\* C16, as stated: in a run that renames, a file that was matched to no entry
\* of the previous manifest, when no other file is named 'D-B.md', is named
\* 'D-B.md' after the run and its entry has slug 'D-B' and date D.
C16_Original ==
    (Written /\ ~run.flags.noRename) =>
        \A i \in DOMAIN run.posts :
            (/\ run.posts[i].existingSlug = None
             /\ \A j \in DOMAIN run.posts \ {i} :
                   run.posts[j].filename.stem # CanonicalStem(run.posts[i]))
                => RenamedToCanonical(run.posts[i])

\* C16, as amended: the same, when moreover no file that the run handled
\* before it was renamed to 'D-B.md'.
C16_RoundTripRename ==
    (Written /\ ~run.flags.noRename) =>
        \A i \in DOMAIN run.posts :
            (/\ run.posts[i].existingSlug = None
             /\ \A j \in DOMAIN run.posts \ {i} :
                   /\ run.posts[j].filename.stem # CanonicalStem(run.posts[i])
                   /\ j < i => run.posts[j].filepath.stem # CanonicalStem(run.posts[i]))
                => RenamedToCanonical(run.posts[i])

\* A run without flags found the new file a.md with 'created: 2025-01-01',
\* renamed it to 2025-01-01-a.md and wrote its entry with that slug.
C16_Witness ==
    /\ Written /\ run.flags = NoRun.flags
    /\ \E i \in DOMAIN run.posts :
          /\ run.posts[i].existingSlug = None
          /\ run.posts[i].filename.stem = [k |-> "bare", d |-> 0, b |-> "a"]
          /\ run.posts[i].originalContent.created = 1
          /\ run.posts[i].renamed
          /\ RenamedToCanonical(run.posts[i])
          /\ run.posts[i].postData.slug = [k |-> "iso", d |-> 1, b |-> "a"]

\* The posts as processPost returned them, before the changes are applied.
InitialPosts ==
    ProcessAll(readdirSync(PriorDir), 1, PriorDir,
               IF run.flags.force THEN << >> ELSE loadExistingPosts(run.prior),
               run.flags)

\* The directory at the moment the apply loop comes to post i.
DirBefore(i) ==
    ApplyChanges(SubSeq(InitialPosts, 1, i - 1), 1, PriorDir, run.flags).dir

\* The file of post i is to be renamed and its target exists at that moment.
TargetExists(i) ==
    /\ run.posts[i].needsRename
    /\ run.posts[i].newFilename \in DOMAIN DirBefore(i)

\* C21, as stated: in a run that renames, a file whose target exists when
\* the file is handled keeps its name, its entry has the name without '.md' as slug, and
\* the run goes on: every file has its entry in the manifest written.
C21_CollisionSkipsRename ==
    (Written /\ ~run.flags.noRename) =>
        \A i \in DOMAIN run.posts :
            TargetExists(i) =>
                /\ ~run.posts[i].renamed
                /\ run.posts[i].filepath = run.posts[i].filename
                /\ run.posts[i].filename \in DOMAIN dir
                /\ run.posts[i].postData.slug = StripMd(run.posts[i].filename)
                /\ Len(manifest) = Len(run.posts)
                /\ \A k \in DOMAIN run.posts :
                      \E j \in DOMAIN manifest : manifest[j] = run.posts[k].postData

\* C22: a run in which a read, a rename or a write of a markdown file failed
\* leaves posts.json as it found it, whatever it did to the files before;
\* a run that wrote posts.json wrote the entries of all its files, after
\* its changes to them.
C22_ManifestWrittenLast ==
    /\ run.outcome = "aborted" => manifest = run.prior
    /\ Written =>
          /\ manifest = sortPostsTopologically(PostData(run.posts))
          /\ \A i \in DOMAIN run.posts : run.posts[i].filepath \in DOMAIN dir

\* The write of a stripped file failed after a file of the run was renamed:
\* the manifest is still the one of the earlier run.
C22_Witness ==
    /\ run.outcome = "aborted"
    /\ run.flags.stripMeta
    /\ manifest = run.prior
    /\ manifest # << >>
    /\ \E i \in DOMAIN run.posts : run.posts[i].filename \notin DOMAIN dir
    /\ \E i \in DOMAIN run.posts : run.posts[i].postData \notin Range(manifest)

\* The number of times x occurs in a sequence.
CountIn(seq, x) == Cardinality({i \in DOMAIN seq : seq[i] = x})

\* Two sequences hold the same elements the same number of times.
SameElements(s, t) ==
    /\ Len(s) = Len(t)
    /\ \A i \in DOMAIN s : CountIn(s, s[i]) = CountIn(t, s[i])

\* C25: a run that writes the manifest over a directory with markdown files
\* writes one entry per file: as many entries as files, each file handled
\* once, and the entries written are those of the files.
C25_OneEntryPerFile ==
    [][(run'.outcome = "written" /\ DOMAIN dir # {}) =>
          /\ Len(manifest') = Cardinality(DOMAIN dir)
          /\ Len(run'.posts) = Cardinality(DOMAIN dir)
          /\ {run'.posts[i].filename : i \in DOMAIN run'.posts} = DOMAIN dir
          /\ SameElements(manifest', PostData(run'.posts))]_vars

\* Three files were matched to the same entry of the previous manifest: the
\* manifest written has three entries.
C25_Witness ==
    /\ Written
    /\ Cardinality(DOMAIN dir) = MaxFiles
    /\ Len(manifest) = MaxFiles
    /\ Len(run.prior) = 1
    /\ \A i \in DOMAIN run.posts : run.posts[i].reused

\* C26: a run leaves as many markdown files as it found, and after a run
\* that came to its end each file it found is one file of its own, under
\* its name or the name it was renamed to, with its content or its content
\* without metadata.
C26_NoFileLost ==
    [][/\ Cardinality(DOMAIN dir') = Cardinality(DOMAIN dir)
       /\ run'.outcome = "written" =>
             /\ DOMAIN dir' = {run'.posts[i].filepath : i \in DOMAIN run'.posts}
             /\ \A i, j \in DOMAIN run'.posts :
                   i # j => run'.posts[i].filepath # run'.posts[j].filepath
             /\ \A i \in DOMAIN run'.posts :
                   /\ run'.posts[i].filename \in DOMAIN dir
                   /\ dir'[run'.posts[i].filepath]
                         \in {dir[run'.posts[i].filename],
                              stripMetadata(dir[run'.posts[i].filename])}]_vars

\* A run renamed a file and left another one, whose target was taken, under
\* its name.
C26_Witness ==
    /\ Written
    /\ Cardinality(DOMAIN dir) = MaxFiles
    /\ \E i, j \in DOMAIN run.posts :
          /\ run.posts[i].renamed
          /\ run.posts[j].skipped
          /\ run.posts[j].newFilename = run.posts[i].filepath

\* Two entries tie on sourceRepo, depth and date.
Tie(memo, a, b) ==
    /\ RepoOf(a) = RepoOf(b)
    /\ DepthOf(memo, a) = DepthOf(memo, b)
    /\ a.date = b.date

\* C27: the sorted list holds the entries of the input, those that tie on
\* sourceRepo, depth and date in their input order; sorting it again, with
\* the function of the script or the one of the site, returns it; and the
\* function of the site returns the same list for the input.
C27_SortIdempotentStable ==
    phase = "sorted" =>
        /\ SameElements(sorted, posts)
        /\ \A i, j \in DOMAIN posts :
              (i < j /\ Tie(depthMemo, posts[i], posts[j])) =>
                  PositionOf(sorted, posts[i].slug) < PositionOf(sorted, posts[j].slug)
        /\ sortPostsTopologically(sorted) = sorted
        /\ sortPostsTopologicallyByTime(sorted) = sorted
        /\ sortPostsTopologicallyByTime(posts) = sorted

\* Two entries that tie came after an entry of a later sourceRepo: they were
\* moved before it, in their order.
C27_Witness ==
    /\ phase = "sorted"
    /\ Len(posts) = 3
    /\ RepoOf(posts[1]) = "b"
    /\ RepoOf(posts[2]) = ""
    /\ Tie(depthMemo, posts[2], posts[3])
    /\ sorted = <<posts[2], posts[3], posts[1]>>

\* C18: the post list of the PostProvider never holds a draft, and a run
\* without --force that wrote the manifest left the draft flag of every
\* entry it matched as it was.
C18_DraftsHiddenAndKept ==
    /\ phase = "loaded" => \A j \in DOMAIN sorted : ~IsDraft(sorted[j])
    /\ (Written /\ ~run.flags.force) =>
          \A i \in DOMAIN run.posts :
             run.posts[i].existingSlug # None =>
                /\ IsDraft(run.posts[i].postData) = IsDraft(PriorOf(run.posts[i]))
                /\ \E j \in DOMAIN manifest : manifest[j] = run.posts[i].postData

\* The run matched a draft and another entry, wrote both, and the site was
\* loaded: the list holds the other entry only.
C18_Witness ==
    /\ phase = "loaded"
    /\ Written /\ ~run.flags.force
    /\ \E i \in DOMAIN run.posts :
          /\ run.posts[i].existingSlug # None
          /\ IsDraft(PriorOf(run.posts[i]))
    /\ \E j \in DOMAIN manifest : IsDraft(manifest[j])
    /\ Len(sorted) = 1
    /\ Len(manifest) = 2

\* C19: the list of the PostProvider is the list of the published entries in
\* the order the script's sortPostsTopologically gives the manifest, and
\* every published entry has the same depth in both computations.
C19_SameOrderInBothLayers ==
    phase = "loaded" =>
        /\ sorted = FilterDrafts(sortPostsTopologically(manifest))
        /\ \A j \in DOMAIN sorted :
              depthMemo[sorted[j].slug] = calculatePostDepths(manifest)[sorted[j].slug]

\* ------------------------------------------------------------------------
\* Properties of the depth computation
\* ------------------------------------------------------------------------
\* Entry i lists the slug of entry j.
Lists(i, j) ==
    /\ posts[i].prerequisites # None
    /\ \E k \in DOMAIN posts[i].prerequisites[1] :
          posts[i].prerequisites[1][k] = posts[j].slug

ListedEdges == {e \in (DOMAIN posts) \X (DOMAIN posts) : Lists(e[1], e[2])}

\* The entries that reach themselves through resolvable prerequisites.
OnCycle == {i \in DOMAIN posts : \E e \in ListedEdges :
               e[1] = i /\ i \in ReachFrom(ListedEdges, {e[2]})}

\* The entries from which such an entry is reached.
LeadsToCycle == {i \in DOMAIN posts : ReachFrom(ListedEdges, {i}) \cap OnCycle # {}}

\* C20: without a cycle the computation comes to its end, with the depths
\* calculatePostDepths gives; with a cycle it never does, and no entry on a
\* cycle ever gets a memo entry.
C20_TerminatesIffAcyclic ==
    /\ (phase = "depths" /\ OnCycle = {}) ~>
          (phase = "done" /\ depthMemo = calculatePostDepths(posts))
    /\ [](OnCycle # {} =>
            /\ phase # "done"
            /\ \A i \in LeadsToCycle : posts[i].slug \notin DOMAIN depthMemo)

\* An entry without prerequisites got its depth, and the call for an entry
\* that lists itself filled the stack.
C20_Witness ==
    /\ phase = "overflow"
    /\ OnCycle # {}
    /\ \E i \in DOMAIN posts : Lists(i, i)
    /\ DOMAIN depthMemo # {}
    /\ Len(stack) = StackLimit

\* ------------------------------------------------------------------------
\* Properties of the text of a file
\* ------------------------------------------------------------------------
RECURSIVE IsSubsequence(_, _)
IsSubsequence(s, t) ==
    IF s = << >> THEN TRUE
    ELSE IF t = << >> THEN FALSE
    ELSE IF s[1] = t[1] THEN IsSubsequence(Tail(s), Tail(t))
    ELSE IsSubsequence(s, Tail(t))

IsNotBlank(line) == line # ""

\* The lines of a text that the extraction did not treat as metadata: what
\* follows the frontmatter block it parsed, or else the lines that are not
\* the comment-style metadata it parsed, or else every line.
NotMetadata(lines) ==
    IF parseYamlFrontmatter(lines) # None THEN parseYamlFrontmatter(lines)[1].body
    ELSE IF parseCommentMetadata(lines) # None THEN parseCommentMetadata(lines)[1].body
    ELSE lines

\* C17, as stated, for the lines that are not blank: under --strip-meta a
\* file is rewritten only if it had a metadata block, and every line that
\* the extraction did not treat as metadata is still in the rewritten file,
\* in order.
C17_StripKeepsBody ==
    phase = "stripped" =>
        /\ stripRun.written # None => stripRun.hasMetadata
        /\ stripRun.written # None =>
              IsSubsequence(SelectSeq(NotMetadata(stripRun.original), IsNotBlank),
                            stripRun.written[1])

\* The text starts with a '---' ... '---' block in which no line has a key,
\* and has no comment-style metadata either.
BlockWithoutKeys(lines) ==
    /\ MatchFrontmatter(lines) # 0
    /\ parseYamlLines(SubSeq(lines, 2, MatchFrontmatter(lines) - 1)) = << >>
    /\ parseCommentMetadata(lines) = None

\* C23, as stated: a file whose leading block has no key: value line is
\* handled as a file without metadata: no metadata is reported, its body is
\* the whole text, and --strip-meta does not rewrite it.
C23_EmptyBlockIsNoMetadata ==
    (phase = "stripped" /\ BlockWithoutKeys(stripRun.original)) =>
        /\ ~stripRun.hasMetadata
        /\ stripRun.body = stripRun.original
        /\ stripRun.written = None

\* ------------------------------------------------------------------------
\* Properties of the date of a file
\* ------------------------------------------------------------------------
\* The number a part stands for.
NumberOf(part) ==
    CASE part \in {"1", "01"} -> 1
      [] part \in {"2", "02"} -> 2
      [] OTHER -> 2025

\* YYYY-MM-DD for a year, a month and a day.
TwoDigits == <<"01", "02">>
IsoDate(y, m, d) == <<"2025", TwoDigits[m], TwoDigits[d]>>

\* A text is a date with the year first (padded) or the year last, and the
\* date it then stands for.
YearFirst(t) ==
    /\ Len(t) = 3
    /\ t[1] = "2025"
    /\ t[2] \in Range(TwoDigits) /\ t[3] \in Range(TwoDigits)
YearLast(t) ==
    /\ Len(t) = 3
    /\ t[3] = "2025"
    /\ t[1] \notin {"soon", "2025"} /\ t[2] \notin {"soon", "2025"}
StandsFor(t) ==
    IF YearFirst(t) THEN IsoDate(2025, NumberOf(t[2]), NumberOf(t[3]))
    ELSE IsoDate(2025, NumberOf(t[2]), NumberOf(t[1]))

\* A field yields a date when its value is a text in one of the two forms.
Yields(value) == IsString(value) /\ (YearFirst(value.str) \/ YearLast(value.str))

\* The date of the first source that yields one.
FirstDate(in) ==
    IF Yields(in.created) THEN StandsFor(in.created.str)
    ELSE IF Yields(in.date) THEN StandsFor(in.date.str)
    ELSE IF YearFirst(in.prefix) \/ YearLast(in.prefix) THEN StandsFor(in.prefix)
    ELSE in.mtime

\* C24, as stated: the date is the one of the first source that yields a date
\* in the order created, date, file name, modification time, a value in no
\* date form being passed over, and it is in padded YYYY-MM-DD form.
C24_DateResolutionOrder ==
    phase = "dated" =>
        /\ ~resolved.threw
        /\ resolved.value = Some(FirstDate(dateInput))
        /\ MatchesIso(resolved.value[1])

\* ------------------------------------------------------------------------
\* Properties of PostView
\* ------------------------------------------------------------------------
Settled == phase = "view" /\ requests = {}

\* The post of the slug can be loaded: it is listed and its file is served.
Loadable(slug) == slug \in Listed /\ Served(slug)

\* C28, as stated: once all requests have settled, the post held in state is
\* the one of the slug of the route, whatever the order in which the
\* responses of an earlier slug and of this one arrived.
C28_LatestSlugWins ==
    (Settled /\ Loadable(view.slug)) => view.post = Some(view.slug)

\* C29, as stated: once all requests have settled, loading is false and
\* exactly one holds: error is set, or the post of the slug of the route is
\* set; after a load that failed and a later one that succeeded, error is
\* null.
C29_ErrorReflectsLastLoad ==
    Settled =>
        /\ ~view.loading
        /\ (view.error # None) # (view.post = Some(view.slug))
        /\ Loadable(view.slug) => view.error = None

\* ------------------------------------------------------------------------
\* Properties of the navigation of the PostProvider
\* ------------------------------------------------------------------------
\* The slugs of the entries of posts.json that are not in the list of the
\* PostProvider.
SlugsNotListed ==
    {manifest[i].slug : i \in DOMAIN manifest} \ {sorted[i].slug : i \in DOMAIN sorted}

\* C30: over the post list of the PostProvider, getAdjacentPosts of a slug
\* that is not in the list has neither a previous nor a next post; the
\* first post has no previous and the last no next post; and when Q is the
\* next post of P, P is the previous post of Q.
C30_AdjacentConsistent ==
    phase = "loaded" =>
        /\ \A s \in SlugsNotListed :
             getAdjacentPosts(sorted, s) = [prevPost |-> None, nextPost |-> None]
        /\ sorted # << >> =>
             /\ getAdjacentPosts(sorted, sorted[1].slug).prevPost = None
             /\ getAdjacentPosts(sorted, sorted[Len(sorted)].slug).nextPost = None
        /\ \A i \in DOMAIN sorted :
             LET next == getAdjacentPosts(sorted, sorted[i].slug).nextPost
             IN next # None =>
                  getAdjacentPosts(sorted, next[1].slug).prevPost = Some(sorted[i])
====
